---- MODULE Spec2Model ----
(***************************************************************************)
(* The ZKNON coupon engine (src/server.js): the Express route handlers of  *)
(* the coupon ledger and the file-based store (db.js part of the file)     *)
(* they call.                                                              *)
(*                                                                         *)
(* Every route handler and every db function is synchronous (readFileSync, *)
(* writeFileSync, no await, no callback), so inside the one Node.js        *)
(* process a handler runs to completion before the next request's handler  *)
(* starts: one action per handled request.  What can cut a handler short   *)
(* is the environment: a file read or write that throws (swallowed by      *)
(* safeReadJson / safeWriteJson) and the process stopping between the two  *)
(* file writes of a mutating handler.  Those are the parameter f of every  *)
(* handler; Spec runs the handlers on a file system that works, SpecFault  *)
(* lets the environment choose f.                                          *)
(***************************************************************************)
EXTENDS Integers, Sequences, FiniteSets, TLC

VARIABLES couponsFile,  \* data/coupons.json: [exists, data], data the coupon array
          eventsFile,   \* data/events.json:  [exists, data], data the event array
          req,          \* the request handled last (method+route, params, body)
          resp,         \* the response it got
          io,           \* what the file system did during that request
          faults,       \* how many requests so far met a failing file system
          ops,          \* how many requests so far changed the store
          onchain       \* the settlement of the on-chain withdrawal handled last

vars == <<couponsFile, eventsFile, req, resp, io, faults, ops, onchain>>

----------------------------------------------------------------------------
(* Bounds of the model *)

MaxEvents == 3                  \* the store is explored up to this many events
                                \* and this many requests that change it
MaxBalance == 2 * MaxEvents     \* and balances up to the largest MaxEvents operations give
MaxFaults == 1                  \* requests that meet a failing file system

----------------------------------------------------------------------------
(* JavaScript values *)

\* Strings are sequences of characters; "sp" is a whitespace character.
Undefined == <<"undefined">>       \* a field the body does not carry
Null == <<"null">>
EmptyStr == <<>>

JsNum(n) == [kind |-> "number", n |-> n]
JsNaN == [kind |-> "NaN", n |-> 0]
JsInfinity == [kind |-> "Infinity", n |-> 0]
JsUndefined == [kind |-> "undefined", n |-> 0]
JsNull == [kind |-> "null", n |-> 0]

\* x || ""  followed by String(...): undefined, null and "" all give "".
OrEmpty(v) == IF v = Undefined \/ v = Null THEN EmptyStr ELSE v

RECURSIVE TrimStart(_)
TrimStart(s) == IF s # <<>> /\ Head(s) = "sp" THEN TrimStart(Tail(s)) ELSE s

RECURSIVE TrimEnd(_)
TrimEnd(s) ==
    IF s # <<>> /\ s[Len(s)] = "sp" THEN TrimEnd(SubSeq(s, 1, Len(s) - 1)) ELSE s

\* String.prototype.trim
Trim(s) == TrimEnd(TrimStart(s))

\* String(v || "").trim()
CleanStr(v) == Trim(OrEmpty(v))

\* Number(value): undefined -> NaN, null -> 0, a number stays itself.
ToNumber(v) ==
    CASE v.kind = "undefined" -> JsNaN
      [] v.kind = "null" -> JsNum(0)
      [] OTHER -> v

IsFinite(v) == v.kind = "number"

\* A faulty variant: n < 0 for n <= 0
parseAmountSolLax(value) ==
    LET n == ToNumber(value)
    IN  IF ~IsFinite(n) \/ n.n < 0 THEN JsNull ELSE n

parseAmountSol(value) ==
    LET n == ToNumber(value)
    IN  IF ~IsFinite(n) \/ n.n <= 0 THEN JsNull ELSE n

----------------------------------------------------------------------------
(* Configuration and the values the environment supplies *)

POOL_ADDRESS == <<"P">>

CouponIds == {1, 2}        \* the ids generateCouponId can draw
NoId == 0                  \* pay's coupon_id when the body carries none
Times == {1}               \* the readings of the clock
Amounts == {1, 2}          \* the amounts requests carry, in minimum units
\* The store is explored up to one coupon per id generateCouponId can draw:
\* two coupons of two ids, or of one id drawn twice.
MaxCoupons == Cardinality(CouponIds)

\* generateCouponId: two random 16-bit halves, no look at the store.
generateCouponId == CouponIds

nowIso == Times

----------------------------------------------------------------------------
(* The store (db.js) *)

NoFile == [exists |-> FALSE, data |-> <<>>]

\* What the file system does during one request.
IoOk == [rc |-> TRUE, wc |-> TRUE, re |-> TRUE, we |-> TRUE, crash |-> FALSE]

\* safeReadJson(filePath, []): a missing file is created holding the
\* fallback; a throw anywhere (ok = FALSE) is caught and gives the fallback.
safeReadJson(file, ok) ==
    IF ~ok THEN [file |-> file, value |-> <<>>]
    ELSE IF ~file.exists THEN [file |-> [exists |-> TRUE, data |-> <<>>],
                               value |-> <<>>]
    ELSE [file |-> file, value |-> file.data]

\* safeWriteJson(filePath, data): a throw is caught, logged and dropped.
safeWriteJson(file, data, ok) ==
    IF ok THEN [exists |-> TRUE, data |-> data] ELSE file

loadCoupons(file, ok) == safeReadJson(file, ok)
saveCoupons(file, coupons, ok) == safeWriteJson(file, coupons, ok)
loadEvents(file, ok) == safeReadJson(file, ok)
saveEvents(file, events, ok) == safeWriteJson(file, events, ok)

\* A faulty variant: the owner is not compared
MatchesIdOnly(c, couponId, ownerWallet) == c.id = couponId

\* c.id === couponId && c.owner_wallet === ownerWallet
Matches(c, couponId, ownerWallet) ==
    c.id = couponId /\ c.owner_wallet = ownerWallet

\* Array.prototype.findIndex, 1-based; 0 stands for -1.
findIndex(coupons, couponId, ownerWallet) ==
    LET hits == {i \in 1 .. Len(coupons) : Matches(coupons[i], couponId, ownerWallet)}
    IN  IF hits = {} THEN 0 ELSE CHOOSE i \in hits : \A j \in hits : i <= j

\* createCoupon(coupon): load, push, save.
createCoupon(file, coupon, f) ==
    LET ld == loadCoupons(file, f.rc)
    IN  saveCoupons(ld.file, Append(ld.value, coupon), f.wc)

\* A faulty variant: only the updated coupon is saved
updateCouponAlone(file, couponId, ownerWallet, updater, f) ==
    LET ld == loadCoupons(file, f.rc)
        coupons == ld.value
        index == findIndex(coupons, couponId, ownerWallet)
    IN  IF index = 0 THEN [file |-> ld.file, ret |-> "null", coupon |-> <<>>, error |-> ""]
        ELSE LET u == updater[coupons[index]]
             IN  IF u.threw
                 THEN [file |-> ld.file, ret |-> "throw", coupon |-> <<>>,
                       error |-> u.error]
                 ELSE [file |-> saveCoupons(ld.file, <<u.coupon>>, f.wc),
                       ret |-> "coupon", coupon |-> <<u.coupon>>, error |-> ""]

\* The coupons an updater can be handed: those of the coupons file.
Stored(file) == {file.data[i] : i \in 1 .. Len(file.data)}

\* updateCoupon(couponId, ownerWallet, updater): ret is "null" (no match),
\* "throw" (the updater threw: nothing is saved) or "coupon".  The updater
\* callback is a function on the stored coupons.
updateCoupon(file, couponId, ownerWallet, updater, f) ==
    LET ld == loadCoupons(file, f.rc)
        coupons == ld.value
        index == findIndex(coupons, couponId, ownerWallet)
    IN  IF index = 0 THEN [file |-> ld.file, ret |-> "null", coupon |-> <<>>, error |-> ""]
        ELSE LET u == updater[coupons[index]]
             IN  IF u.threw
                 THEN [file |-> ld.file, ret |-> "throw", coupon |-> <<>>,
                       error |-> u.error]
                 ELSE [file |-> saveCoupons(ld.file,
                                            [coupons EXCEPT ![index] = u.coupon],
                                            f.wc),
                       ret |-> "coupon", coupon |-> <<u.coupon>>, error |-> ""]

\* A faulty variant: the owner is not compared
getCouponByIdAnyOwner(coupons, couponId, ownerWallet) ==
    LET hits == {i \in 1 .. Len(coupons) : coupons[i].id = couponId}
    IN  IF hits = {} THEN <<>>
        ELSE <<coupons[CHOOSE i \in hits : \A j \in hits : i <= j]>>

\* getCouponById: Array.prototype.find, <<>> for undefined.
getCouponById(coupons, couponId, ownerWallet) ==
    LET index == findIndex(coupons, couponId, ownerWallet)
    IN  IF index = 0 THEN <<>> ELSE <<coupons[index]>>

getCouponsByOwner(coupons, ownerWallet) ==
    SelectSeq(coupons, LAMBDA c : c.owner_wallet = ownerWallet)

\* A faulty variant: the event is saved without the events loaded before
addEventNoLoad(file, event, f) == saveEvents(file, <<event>>, f.we)

\* addEvent(event): load, push, save.
addEvent(file, event, f) ==
    LET ld == loadEvents(file, f.re)
    IN  saveEvents(ld.file, Append(ld.value, event), f.we)

getEventsForCoupon(events, couponId, ownerWallet) ==
    SelectSeq(events, LAMBDA e : e.coupon_id = couponId /\ e.owner_wallet = ownerWallet)

----------------------------------------------------------------------------
(* The updaters the handlers pass to updateCoupon *)

\* A faulty variant: the sum is computed and dropped
depositUpdaterDropped(coupon, amount) ==
    [threw |-> FALSE, error |-> "", coupon |-> coupon]

\* A faulty variant: the sum is assigned to initial_amount_sol as well
depositUpdaterInitial(coupon, amount) ==
    [threw |-> FALSE, error |-> "",
     coupon |-> [coupon EXCEPT !.remaining_amount_sol = @ + amount,
                               !.initial_amount_sol = @ + amount]]

depositUpdater(coupon, amount) ==
    [threw |-> FALSE, error |-> "",
     coupon |-> [coupon EXCEPT !.remaining_amount_sol = @ + amount]]

\* A faulty variant: no balance check
withdrawUpdaterNoCheck(coupon, amount) ==
    [threw |-> FALSE, error |-> "",
     coupon |-> [coupon EXCEPT !.remaining_amount_sol = @ - amount]]

withdrawUpdater(coupon, amount) ==
    IF amount > coupon.remaining_amount_sol
    THEN [threw |-> TRUE, error |-> "insufficient balance", coupon |-> coupon]
    ELSE [threw |-> FALSE, error |-> "",
          coupon |-> [coupon EXCEPT !.remaining_amount_sol = @ - amount]]

\* A faulty variant: amount >= current for amount > current
payUpdaterOffByOne(coupon, amount) ==
    IF amount > coupon.remaining_amount_sol + 1
    THEN [threw |-> TRUE, error |-> "insufficient balance", coupon |-> coupon]
    ELSE [threw |-> FALSE, error |-> "",
          coupon |-> [coupon EXCEPT !.remaining_amount_sol = @ - amount]]

payUpdater(coupon, amount) ==
    IF amount > coupon.remaining_amount_sol
    THEN [threw |-> TRUE, error |-> "insufficient balance", coupon |-> coupon]
    ELSE [threw |-> FALSE, error |-> "",
          coupon |-> [coupon EXCEPT !.remaining_amount_sol = @ - amount]]

----------------------------------------------------------------------------
(* Responses *)

Response(status, error, coupon, event) ==
    [status |-> status, error |-> error, wallet |-> EmptyStr,
     coupon |-> coupon, event |-> event, events |-> <<>>, coupons |-> <<>>]

\* res.status(s).json({ error })
ErrorResponse(status, error) == Response(status, error, <<>>, <<>>)

\* No response: nothing handled yet, or the process stopped before res.json.
NoResponse == Response(0, "", <<>>, <<>>)

\* An exception leaving a route handler reaches Express's final handler,
\* which answers 500 (the Error carries no status).  The error field holds
\* the exception's message, which the final handler puts in the body only
\* outside production.
Uncaught(error) == Response(500, error, <<>>, <<>>)

Event(couponId, ownerWallet, type, amount, toAddress, createdAt) ==
    [coupon_id |-> couponId, owner_wallet |-> ownerWallet, type |-> type,
     amount_sol |-> amount, to_address |-> toAddress, note |-> Null,
     created_at |-> createdAt]

Request(op, id, wallet, label, amount, recipient) ==
    [op |-> op, id |-> id, wallet |-> wallet, label |-> label,
     amount_sol |-> amount, recipient |-> recipient]

NoRequest == Request("none", NoId, Undefined, Undefined, JsUndefined, Undefined)

\* What the Settlement Gateway answered and the state the withdrawal attempt
\* ended in; NoSettlement when the request was no on-chain withdrawal or
\* never got as far as the gateway.
Settlement(gateway, attempt) == [gateway |-> gateway, attempt |-> attempt]
NoSettlement == Settlement("none", "none")

----------------------------------------------------------------------------
(* The state after construction: an empty data directory, no exchange *)

Init ==
    /\ couponsFile = NoFile
    /\ eventsFile = NoFile
    /\ req = NoRequest
    /\ resp = NoResponse
    /\ io = IoOk
    /\ faults = 0
    /\ ops = 0
    /\ onchain = NoSettlement

\* What a handler leaves behind: the two files and the response.
Outcome(cf, ef, response) ==
    [cf |-> cf, ef |-> ef, resp |-> response, onchain |-> NoSettlement]

----------------------------------------------------------------------------
(* The requests the model draws *)

\* Well-formed field values; " b" shows the trim.
Wallets == {<<"a">>, <<"sp", "b">>}
Label == <<"l">>
Recipient == <<"m">>
GoodAmounts == {JsNum(n) : n \in Amounts}
\* Field values the validation turns down.
BadAmounts == {JsNum(-1), JsNum(0), JsNaN, JsInfinity, JsUndefined, JsNull}
BadStrings == {Undefined, <<"sp">>}

\* Every combination of well-formed fields, and one well-formed request
\* with each field in turn replaced by each bad value.
Variants(op, ids, label, recipient) ==
    LET i0 == CHOOSE i \in ids : \A j \in ids : i <= j
    IN  {Request(op, i, w, label, a, recipient) :
            i \in ids, w \in Wallets, a \in GoodAmounts}
        \cup {Request(op, i0, w, label, JsNum(1), recipient) : w \in BadStrings}
        \cup {Request(op, i0, <<"a">>, label, a, recipient) : a \in BadAmounts}
        \cup (IF label = Undefined THEN {}
              ELSE {Request(op, i0, <<"a">>, l, JsNum(1), recipient) :
                       l \in BadStrings})
        \cup (IF recipient = Undefined THEN {}
              ELSE {Request(op, i0, <<"a">>, label, JsNum(1), t) :
                       t \in BadStrings})

ListRequests ==
    {Request("list", NoId, w, Undefined, JsUndefined, Undefined) :
        w \in Wallets \cup BadStrings}

CreateRequests == Variants("create", {NoId}, Label, Undefined)

DepositRequests == Variants("deposit", CouponIds, Undefined, Undefined)

WithdrawRequests == Variants("withdraw", CouponIds, Undefined, Recipient)

PayRequests ==
    Variants("pay", CouponIds, Undefined, Recipient)
        \cup {Request("pay", NoId, <<"a">>, Undefined, JsNum(1), Recipient)}

HistoryRequests ==
    {Request("history", i, w, Undefined, JsUndefined, Undefined) :
        i \in CouponIds, w \in Wallets}
        \cup {Request("history", 1, w, Undefined, JsUndefined, Undefined) :
                 w \in BadStrings}

----------------------------------------------------------------------------
(* The route handlers, each as the function from the files it finds to  *)
(* the files it leaves and the response it sends                         *)

\* GET /coupons?wallet=
GetCoupons(cf, ef, r, f) ==
    LET wallet == CleanStr(r.wallet)
        lc == loadCoupons(cf, f.rc)
        mine == getCouponsByOwner(lc.value, wallet)
        \* getEventsForCoupon runs, and loads the events, once per coupon
        le == IF mine = <<>> THEN [file |-> ef, value |-> <<>>]
              ELSE loadEvents(ef, f.re)
        coupons == [i \in 1 .. Len(mine) |->
                       [coupon |-> mine[i],
                        events |-> getEventsForCoupon(le.value, mine[i].id,
                                                      mine[i].owner_wallet)]]
    IN  IF wallet = EmptyStr
        THEN Outcome(cf, ef, ErrorResponse(400, "wallet query param is required"))
        ELSE Outcome(lc.file, le.file,
                     [Response(200, "", <<>>, <<>>) EXCEPT
                         !.wallet = wallet, !.coupons = coupons])

\* POST /coupons
PostCoupons(cf, ef, r, f, id, createdAt) ==
    LET ownerWallet == CleanStr(r.wallet)
        couponLabel == CleanStr(r.label)
        amount == parseAmountSol(r.amount_sol)
        coupon == [id |-> id, label |-> couponLabel, owner_wallet |-> ownerWallet,
                   initial_amount_sol |-> amount.n,
                   remaining_amount_sol |-> amount.n,
                   expires_at |-> Null, pool_address |-> POOL_ADDRESS,
                   created_at |-> createdAt]
        cf2 == createCoupon(cf, coupon, f)
        ef2 == addEvent(ef,
                        Event(id, ownerWallet, "create", amount.n, ownerWallet,
                              createdAt), f)
    IN  IF ownerWallet = EmptyStr
        THEN Outcome(cf, ef, ErrorResponse(400, "wallet is required"))
        ELSE IF couponLabel = EmptyStr
        THEN Outcome(cf, ef, ErrorResponse(400, "label is required"))
        ELSE IF amount = JsNull
        THEN Outcome(cf, ef,
                     ErrorResponse(400, "amount_sol must be a positive number"))
        ELSE IF f.crash
        THEN Outcome(cf2, ef, NoResponse)
        ELSE Outcome(cf2, ef2, Response(201, "", <<coupon>>, <<>>))

\* The part the three balance handlers share, from db.updateCoupon on:
\* A faulty variant: the event is recorded before the result is looked at
MutateLogFirst(ef, f, u, event) ==
    IF u.ret = "null"
    THEN Outcome(u.file, addEvent(ef, event, f),
                 ErrorResponse(404, "coupon not found for this wallet"))
    ELSE IF u.ret = "throw"
    THEN Outcome(u.file, addEvent(ef, event, f), Uncaught(u.error))
    ELSE IF f.crash
    THEN Outcome(u.file, ef, NoResponse)
    ELSE Outcome(u.file, addEvent(ef, event, f),
                 Response(200, "", u.coupon, <<event>>))

\* 404 when nothing matched, the updater's exception left uncaught, else
\* db.addEvent and the 200 response carrying what updateCoupon returned.
Mutate(ef, f, u, event) ==
    IF u.ret = "null"
    THEN Outcome(u.file, ef, ErrorResponse(404, "coupon not found for this wallet"))
    ELSE IF u.ret = "throw"
    THEN Outcome(u.file, ef, Uncaught(u.error))
    ELSE IF f.crash
    THEN Outcome(u.file, ef, NoResponse)
    ELSE Outcome(u.file, addEvent(ef, event, f),
                 Response(200, "", u.coupon, <<event>>))

\* POST /coupons/:id/deposit
PostDeposit(cf, ef, r, f, createdAt) ==
    LET ownerWallet == CleanStr(r.wallet)
        amount == parseAmountSol(r.amount_sol)
        updated == updateCoupon(cf, r.id, ownerWallet,
                                [c \in Stored(cf) |-> 
                                    depositUpdater(c, amount.n)], f)
    IN  IF ownerWallet = EmptyStr
        THEN Outcome(cf, ef, ErrorResponse(400, "wallet is required"))
        ELSE IF amount = JsNull
        THEN Outcome(cf, ef,
                     ErrorResponse(400, "amount_sol must be a positive number"))
        ELSE Mutate(ef, f, updated,
                    Event(r.id, ownerWallet, "deposit", amount.n, ownerWallet,
                          createdAt))

\* POST /coupons/:id/withdraw.  The handler's "updated instanceof Error"
\* branch is never taken: updateCoupon returns a coupon or null, and the
\* updater's Error is thrown, not returned.
PostWithdraw(cf, ef, r, f, createdAt) ==
    LET ownerWallet == CleanStr(r.wallet)
        toAddress == CleanStr(r.recipient)
        amount == parseAmountSol(r.amount_sol)
        updated == updateCoupon(cf, r.id, ownerWallet,
                                [c \in Stored(cf) |-> 
                                    withdrawUpdater(c, amount.n)], f)
    IN  IF ownerWallet = EmptyStr
        THEN Outcome(cf, ef, ErrorResponse(400, "wallet is required"))
        ELSE IF toAddress = EmptyStr
        THEN Outcome(cf, ef, ErrorResponse(400, "recipient is required"))
        ELSE IF amount = JsNull
        THEN Outcome(cf, ef,
                     ErrorResponse(400, "amount_sol must be a positive number"))
        ELSE Mutate(ef, f, updated,
                    Event(r.id, ownerWallet, "withdraw", amount.n, toAddress,
                          createdAt))

\* POST /pay
PostPay(cf, ef, r, f, createdAt) ==
    LET ownerWallet == CleanStr(r.wallet)
        couponId == r.id
        merchantWallet == CleanStr(r.recipient)
        amount == parseAmountSol(r.amount_sol)
        updated == updateCoupon(cf, couponId, ownerWallet,
                                [c \in Stored(cf) |-> 
                                    payUpdater(c, amount.n)], f)
    IN  IF ownerWallet = EmptyStr
        THEN Outcome(cf, ef, ErrorResponse(400, "wallet is required"))
        ELSE IF couponId = NoId
        THEN Outcome(cf, ef, ErrorResponse(400, "coupon_id is required"))
        ELSE IF merchantWallet = EmptyStr
        THEN Outcome(cf, ef, ErrorResponse(400, "merchant is required"))
        ELSE IF amount = JsNull
        THEN Outcome(cf, ef,
                     ErrorResponse(400, "amount_sol must be a positive number"))
        ELSE Mutate(ef, f, updated,
                    Event(couponId, ownerWallet, "pay", amount.n, merchantWallet,
                          createdAt))

\* GET /coupons/:id/history?wallet=
GetHistory(cf, ef, r, f) ==
    LET wallet == CleanStr(r.wallet)
        lc == loadCoupons(cf, f.rc)
        coupon == getCouponById(lc.value, r.id, wallet)
        le == loadEvents(ef, f.re)
    IN  IF wallet = EmptyStr
        THEN Outcome(cf, ef, ErrorResponse(400, "wallet query param is required"))
        ELSE IF coupon = <<>>
        THEN Outcome(lc.file, ef,
                     ErrorResponse(404, "coupon not found for this wallet"))
        ELSE Outcome(lc.file, le.file,
                     [Response(200, "", coupon, <<>>) EXCEPT
                         !.events = getEventsForCoupon(le.value, r.id, wallet)])

----------------------------------------------------------------------------
(* The actions *)

\* The server is between two exchanges.
Idle == req = NoRequest

\* Request r is handled, from its arrival to the response, with the file
\* system behaving as f says and the handler leaving o.
Exchange(r, f, o) ==
    /\ Idle
    /\ req' = r
    /\ io' = f
    /\ faults' = IF f = IoOk THEN faults ELSE faults + 1
    /\ faults' <= MaxFaults
    /\ ops' = IF o.cf.data = couponsFile.data /\ o.ef.data = eventsFile.data
              THEN ops ELSE ops + 1
    /\ ops' <= MaxEvents
    /\ resp' = o.resp
    /\ onchain' = o.onchain
    /\ couponsFile' = o.cf
    /\ eventsFile' = o.ef
    /\ Len(o.cf.data) <= MaxCoupons
    /\ Len(o.ef.data) <= MaxEvents
    /\ \A i \in 1 .. Len(o.cf.data) : o.cf.data[i].remaining_amount_sol <= MaxBalance

\* The exchange is over: the response is with the client (or, when the
\* process stopped, the process is up again), and the server waits.
Close ==
    /\ ~Idle
    /\ req' = NoRequest
    /\ resp' = NoResponse
    /\ io' = IoOk
    /\ onchain' = NoSettlement
    /\ UNCHANGED <<couponsFile, eventsFile, faults, ops>>

List ==
    \E r \in ListRequests :
        Exchange(r, IoOk, GetCoupons(couponsFile, eventsFile, r, IoOk))

Create ==
    \E r \in CreateRequests, id \in generateCouponId, t \in nowIso :
        Exchange(r, IoOk, PostCoupons(couponsFile, eventsFile, r, IoOk, id, t))

Deposit ==
    \E r \in DepositRequests, t \in nowIso :
        Exchange(r, IoOk, PostDeposit(couponsFile, eventsFile, r, IoOk, t))

Withdraw ==
    \E r \in WithdrawRequests, t \in nowIso :
        Exchange(r, IoOk, PostWithdraw(couponsFile, eventsFile, r, IoOk, t))

Pay ==
    \E r \in PayRequests, t \in nowIso :
        Exchange(r, IoOk, PostPay(couponsFile, eventsFile, r, IoOk, t))

History ==
    \E r \in HistoryRequests :
        Exchange(r, IoOk, GetHistory(couponsFile, eventsFile, r, IoOk))

Next == List \/ Create \/ Deposit \/ Withdraw \/ Pay \/ History \/ Close

\* The engine on a file system that works.
Spec == Init /\ [][Next]_vars

----------------------------------------------------------------------------
(* The engine on a file system that can fail *)

\* During one request at most one thing goes wrong: a read or a write of
\* one of the files throws, or the process stops after the handler's first
\* db call (createCoupon / updateCoupon) returned and before db.addEvent runs.
Faults ==
    {IoOk, [IoOk EXCEPT !.rc = FALSE], [IoOk EXCEPT !.wc = FALSE],
     [IoOk EXCEPT !.re = FALSE], [IoOk EXCEPT !.we = FALSE],
     [IoOk EXCEPT !.crash = TRUE]}

\* The requests whose fields all pass the validation.
WellFormed(r) ==
    /\ CleanStr(r.wallet) # EmptyStr
    /\ r.op = "create" => CleanStr(r.label) # EmptyStr
    /\ r.op \in {"withdraw", "pay"} => CleanStr(r.recipient) # EmptyStr
    /\ r.op = "pay" => r.id # NoId
    /\ r.op \in {"create", "deposit", "withdraw", "pay"} =>
          parseAmountSol(r.amount_sol) # JsNull

WellFormedOf(requests) == {r \in requests : WellFormed(r)}

ListFault ==
    \E r \in WellFormedOf(ListRequests), f \in Faults :
        ~f.crash /\ Exchange(r, f, GetCoupons(couponsFile, eventsFile, r, f))

CreateFault ==
    \E r \in WellFormedOf(CreateRequests), f \in Faults,
       id \in generateCouponId, t \in nowIso :
        Exchange(r, f, PostCoupons(couponsFile, eventsFile, r, f, id, t))

DepositFault ==
    \E r \in WellFormedOf(DepositRequests), f \in Faults, t \in nowIso :
        Exchange(r, f, PostDeposit(couponsFile, eventsFile, r, f, t))

WithdrawFault ==
    \E r \in WellFormedOf(WithdrawRequests), f \in Faults, t \in nowIso :
        Exchange(r, f, PostWithdraw(couponsFile, eventsFile, r, f, t))

PayFault ==
    \E r \in WellFormedOf(PayRequests), f \in Faults, t \in nowIso :
        Exchange(r, f, PostPay(couponsFile, eventsFile, r, f, t))

HistoryFault ==
    \E r \in WellFormedOf(HistoryRequests), f \in Faults :
        ~f.crash /\ Exchange(r, f, GetHistory(couponsFile, eventsFile, r, f))

NextFault ==
    ListFault \/ CreateFault \/ DepositFault \/ WithdrawFault \/ PayFault
        \/ HistoryFault \/ Close

SpecFault == Init /\ [][NextFault]_vars

----------------------------------------------------------------------------
(* The on-chain withdrawal (spec.md 4.3, Withdrawal Reconciler).  The      *)
(* service variant with the settlement integration is not part of          *)
(* src/server.js; this section follows the specification's state machine   *)
(*   Requested -> BalanceReserved -> SettlementSubmitted                   *)
(*     -> SettlementConfirmed -> Committed | SettlementFailed -> Released  *)
(*      | SettlementUnknown -> PendingReview                               *)
(* and uses the store of src/server.js for the lookup and the commit.      *)

\* What the Settlement Gateway's transfer call can come back with: a
\* confirmed reference, a definite failure, or no answer (timeout).
Gateway == {"confirmed", "failed", "unknown"}
SettlementRef == <<"ref">>

\* A faulty variant: an unanswered submission is taken for a transfer made
ReconcileOptimistic(gateway) ==
    IF gateway = "failed" THEN "Released" ELSE "Committed"

\* The terminal state of the attempt for each answer of the gateway.
Reconcile(gateway) ==
    IF gateway = "confirmed" THEN "Committed"
    ELSE IF gateway = "failed" THEN "Released"
    ELSE "PendingReview"

OnchainRequests == Variants("withdraw-onchain", CouponIds, Undefined, Recipient)

\* POST /coupons/{id}/withdraw-onchain.  Requested: validation, lookup and
\* balance check as for the off-chain withdrawal, nothing written.
\* BalanceReserved / SettlementSubmitted: the gateway is called with the
\* balance untouched.  Committed: the decrement and the withdraw event
\* carrying the settlement reference.  Released and PendingReview: nothing
\* written, the failure surfaced as a 5xx.
PostWithdrawOnchain(cf, ef, r, f, gateway, createdAt) ==
    LET ownerWallet == CleanStr(r.wallet)
        toAddress == CleanStr(r.recipient)
        amount == parseAmountSol(r.amount_sol)
        lc == loadCoupons(cf, f.rc)
        index == findIndex(lc.value, r.id, ownerWallet)
        attempt == Reconcile(gateway)
        settled == Settlement(gateway, attempt)
        updated == updateCoupon(cf, r.id, ownerWallet,
                                [c \in Stored(cf) |->
                                    withdrawUpdater(c, amount.n)], f)
        event == Event(r.id, ownerWallet, "withdraw", amount.n, toAddress,
                       createdAt) @@ [settlement_reference |-> SettlementRef]
    IN  IF ownerWallet = EmptyStr \/ toAddress = EmptyStr \/ amount = JsNull
        THEN Outcome(cf, ef, ErrorResponse(400, "ValidationError"))
        ELSE IF index = 0
        THEN Outcome(lc.file, ef, ErrorResponse(404, "NotFound"))
        ELSE IF amount.n > lc.value[index].remaining_amount_sol
        THEN Outcome(lc.file, ef, ErrorResponse(409, "InsufficientBalance"))
        ELSE IF attempt = "Committed"
        THEN [Outcome(updated.file, addEvent(ef, event, f),
                      Response(200, "", updated.coupon, <<event>>))
                 EXCEPT !.onchain = settled]
        ELSE IF attempt = "Released"
        THEN [Outcome(lc.file, ef, ErrorResponse(502, "SettlementSubmissionError"))
                 EXCEPT !.onchain = settled]
        ELSE [Outcome(lc.file, ef, ErrorResponse(504, "SettlementAmbiguous"))
                 EXCEPT !.onchain = settled]

WithdrawOnchain ==
    \E r \in OnchainRequests, g \in Gateway, t \in nowIso :
        Exchange(r, IoOk,
                 PostWithdrawOnchain(couponsFile, eventsFile, r, IoOk, g, t))

NextOnchain == Create \/ Deposit \/ WithdrawOnchain \/ Close

\* The engine with the on-chain withdrawal, on a file system that works.
SpecOnchain == Init /\ [][NextOnchain]_vars

----------------------------------------------------------------------------
(* What the claims speak of *)

Coupons == couponsFile.data
Events == eventsFile.data

Key(id, owner) == <<id, owner>>
CouponKey(c) == Key(c.id, c.owner_wallet)
EventKey(e) == Key(e.coupon_id, e.owner_wallet)

\* The (id, owner_wallet) pairs the store knows.
Keys ==
    {CouponKey(Coupons[i]) : i \in 1 .. Len(Coupons)}
        \cup {EventKey(Events[i]) : i \in 1 .. Len(Events)}

\* An event's amount with its sign: create and deposit add, withdraw and pay take.
Signed(e) ==
    IF e.type \in {"create", "deposit"} THEN e.amount_sol ELSE 0 - e.amount_sol

RECURSIVE SignedSum(_, _)
SignedSum(events, k) ==
    IF events = <<>> THEN 0
    ELSE (IF EventKey(Head(events)) = k THEN Signed(Head(events)) ELSE 0)
             + SignedSum(Tail(events), k)

RECURSIVE Remaining(_, _)
Remaining(coupons, k) ==
    IF coupons = <<>> THEN 0
    ELSE (IF CouponKey(Head(coupons)) = k THEN Head(coupons).remaining_amount_sol
          ELSE 0)
             + Remaining(Tail(coupons), k)

\* The request in req is one of the balance operations, passed validation.
Handled(ops_) == ~Idle /\ req.op \in ops_
ReqKey(r) == Key(r.id, CleanStr(r.wallet))
ReqAmount(r) == ToNumber(r.amount_sol).n

\* The coupon updateCoupon picks for (id, owner): 0 when there is none.
Target(coupons, r) == findIndex(coupons, r.id, CleanStr(r.wallet))

----------------------------------------------------------------------------
(* C1 *)

----------------------------------------------------------------------------
(* C2 *)

\* C2: in every reachable state the persisted remaining_amount of every
\* coupon is >= 0.
C2_NoNegativeBalance ==
    \A i \in 1 .. Len(Coupons) : Coupons[i].remaining_amount_sol >= 0

\* A withdraw or pay took a coupon's whole balance.
C2_Witness ==
    /\ Handled({"withdraw", "pay"}) /\ resp.status = 200
    /\ Target(Coupons, req) # 0
    /\ Coupons[Target(Coupons, req)].remaining_amount_sol = 0

----------------------------------------------------------------------------
(* C3 *)

Debits == {"withdraw", "pay"}
Balance(coupons, r) == coupons[Target(coupons, r)].remaining_amount_sol
Succeeded(response) == response.status \in 200 .. 299
Insufficient(response) ==
    ~Succeeded(response) /\ response.error = "insufficient balance"

\* A withdraw or pay request is handled with the balance b it finds: it
\* succeeds and leaves b - a when a <= b, and is turned down for
\* insufficient balance, changing nothing, when a > b.
C3_Step ==
    (Idle /\ req'.op \in Debits /\ WellFormed(req') /\ Target(Coupons, req') # 0) =>
        IF ReqAmount(req') <= Balance(Coupons, req')
        THEN /\ Succeeded(resp')
             /\ Balance(Coupons', req') = Balance(Coupons, req') - ReqAmount(req')
        ELSE /\ Insufficient(resp')
             /\ Coupons' = Coupons /\ Events' = Events

\* The state after the second of two withdraw/pay requests on one coupon,
\* the first of which (amount a1, event e1) succeeded on balance b:
\* the second (amount a2 <= b, a1 + a2 > b) is turned down for insufficient
\* balance, and when the second succeeded too, a1 + a2 <= b.
C3_Pair ==
    (Handled(Debits) /\ WellFormed(req) /\ Target(Coupons, req) # 0) =>
        LET n == Len(Events)
            a2 == ReqAmount(req)
            bal == Balance(Coupons, req)
            First(e) == e.type \in Debits /\ EventKey(e) = ReqKey(req)
        IN  /\ (~Succeeded(resp) /\ n >= 1 /\ First(Events[n])
                   /\ a2 <= bal + Events[n].amount_sol /\ a2 > bal)
                => Insufficient(resp)
            /\ (Succeeded(resp) /\ n >= 2 /\ First(Events[n - 1]))
                => LET a1 == Events[n - 1].amount_sol
                       b == bal + a1 + a2
                   IN  ~(a1 <= b /\ a2 <= b /\ a1 + a2 > b)

\* C3: of two concurrent withdraw/pay requests of a1 <= b and a2 <= b with
\* a1 + a2 > b on a coupon holding b, whichever order the two handlers run
\* in, the first succeeds and the second is turned down for insufficient
\* balance; both never succeed.
C3_Race == [][C3_Step]_vars /\ []C3_Pair

\* The second request of such a pair was just turned down.
C3_Witness ==
    /\ Handled(Debits) /\ WellFormed(req) /\ Target(Coupons, req) # 0
    /\ Insufficient(resp)
    /\ Events # <<>>
    /\ LET e1 == Events[Len(Events)]
           b == Balance(Coupons, req) + e1.amount_sol
       IN  /\ e1.type \in Debits /\ EventKey(e1) = ReqKey(req)
           /\ e1.amount_sol <= b /\ ReqAmount(req) <= b
           /\ e1.amount_sol + ReqAmount(req) > b

----------------------------------------------------------------------------
(* C4 *)

Updates == {"deposit", "withdraw", "pay"}
Delta(r) == IF r.op = "deposit" THEN ReqAmount(r) ELSE 0 - ReqAmount(r)

\* C4: every successful deposit, withdraw or pay is applied to the balance
\* persisted by the requests handled before it, whatever their order, and
\* adds its event behind all the events already in the events file: the
\* persisted remaining_amount is the starting balance plus the successful
\* deposits minus the successful withdrawals and payments, and no event of
\* a successful request is lost.
C4_NoLostUpdate ==
    [][(Idle /\ req'.op \in Updates /\ Succeeded(resp')) =>
          LET i == Target(Coupons, req')
          IN  /\ i # 0
              /\ Len(Coupons') = Len(Coupons)
              /\ \A j \in 1 .. Len(Coupons) :
                    Coupons'[j].remaining_amount_sol =
                        Coupons[j].remaining_amount_sol
                            + (IF j = i THEN Delta(req') ELSE 0)
              /\ Len(resp'.event) = 1
              /\ Events' = Append(Events, resp'.event[1])
              /\ resp'.event[1].type = req'.op
              /\ resp'.event[1].amount_sol = ReqAmount(req')
              /\ EventKey(resp'.event[1]) = ReqKey(req')]_vars

\* A second successful update of the same coupon.
C4_Witness ==
    /\ Handled(Updates) /\ Succeeded(resp)
    /\ Len(SelectSeq(Events, LAMBDA e : EventKey(e) = ReqKey(req)
                                           /\ e.type \in Updates)) >= 2

----------------------------------------------------------------------------
(* C5 *)

\* C5: a withdraw or pay of more than the coupon's remaining_amount is
\* answered with an insufficient-balance error of the 4xx class, leaves the
\* balance as it was and appends no event.
C5_InsufficientIsClientError ==
    [][(Idle /\ req'.op \in Debits /\ WellFormed(req')
           /\ Target(Coupons, req') # 0
           /\ ReqAmount(req') > Balance(Coupons, req')) =>
          /\ resp'.status \in 400 .. 499
          /\ resp'.error = "insufficient balance"
          /\ Coupons' = Coupons /\ Events' = Events]_vars

----------------------------------------------------------------------------
(* C6 *)

\* C6: a deposit, withdraw or pay changes the balance and appends its event
\* in one step: no state has the one without the other.
C6_BalanceAndEventTogether ==
    [][(Idle /\ req'.op \in Updates) =>
          (Coupons' # Coupons <=> Events' # Events)]_vars

----------------------------------------------------------------------------
(* C7 *)

Mutations == {"create", "deposit", "withdraw", "pay"}

\* The handler of r gets as far as writing a file.
Writes(r) ==
    /\ WellFormed(r)
    /\ \/ r.op = "create"
       \/ /\ Target(Coupons, r) # 0
          /\ r.op = "deposit" \/ ReqAmount(r) <= Balance(Coupons, r)

\* C7: when the write of the coupons file or of the events file fails
\* during create, deposit, withdraw or pay, the operation is not reported
\* as a success and both collections are as they were before it.
C7_FailedWriteAppliesNothing ==
    [][(Idle /\ req'.op \in Mutations /\ Writes(req')
           /\ (~io'.wc \/ ~io'.we)) =>
          /\ ~Succeeded(resp')
          /\ Coupons' = Coupons /\ Events' = Events]_vars

----------------------------------------------------------------------------
(* C8 *)

Reads == {"list", "history"}

----------------------------------------------------------------------------
(* C9 *)

\* No coupon has r's id together with r's wallet.
NoCouponFor(r) ==
    \A i \in 1 .. Len(Coupons) :
        ~(Coupons[i].id = r.id /\ Coupons[i].owner_wallet = CleanStr(r.wallet))

\* C9: a deposit, withdraw or pay whose (id, wallet) matches no coupon, the
\* id of another owner's coupon included, is answered not-found, changes no
\* remaining_amount and appends no event.
C9_NotFoundChangesNothing ==
    [][(Idle /\ req'.op \in Updates /\ WellFormed(req') /\ NoCouponFor(req')) =>
          /\ resp'.status = 404
          /\ Coupons' = Coupons /\ Events' = Events]_vars

\* A deposit, withdraw or pay named another owner's coupon.
C9_Witness ==
    /\ Handled(Updates) /\ resp.status = 404
    /\ \E i \in 1 .. Len(Coupons) :
          Coupons[i].id = req.id /\ Coupons[i].owner_wallet # CleanStr(req.wallet)

----------------------------------------------------------------------------
(* C10 *)

\* A string field is missing (or blank).
MissingStr(v) == v = Undefined \/ v = <<"sp">>

\* An amount that is not finite, not positive or not there.
BadAmount(v) ==
    v.kind \in {"NaN", "Infinity", "undefined", "null"}
        \/ (v.kind = "number" /\ v.n <= 0)

InvalidRequest(r) ==
    \/ MissingStr(r.wallet)
    \/ r.op = "create" /\ MissingStr(r.label)
    \/ r.op \in {"withdraw", "pay"} /\ MissingStr(r.recipient)
    \/ r.op = "pay" /\ r.id = NoId
    \/ BadAmount(r.amount_sol)

\* C10: a create, deposit, withdraw or pay with a missing wallet, label,
\* recipient, merchant or coupon_id, or with an amount that is not finite or
\* is <= 0, is turned down with a validation error and leaves both
\* collections as they were.
C10_ValidationChangesNothing ==
    [][(Idle /\ req'.op \in Mutations /\ InvalidRequest(req')) =>
          /\ resp'.status = 400
          /\ couponsFile' = couponsFile /\ eventsFile' = eventsFile]_vars

\* A request with a bad field was turned down while the store held data.
C10_Witness ==
    /\ Handled(Mutations) /\ InvalidRequest(req) /\ resp.status = 400
    /\ Coupons # <<>> /\ Events # <<>>

----------------------------------------------------------------------------
(* C11 *)

\* s is the beginning of t.
IsPrefix(s, t) == Len(s) <= Len(t) /\ SubSeq(t, 1, Len(s)) = s

\* C11: the events file only grows at its end: across every operation, the
\* ones during which reading or parsing the events file fails included, the
\* events persisted before it are a prefix of the events persisted after it.
C11_AppendOnly == [][IsPrefix(Events, Events')]_vars

----------------------------------------------------------------------------
(* C12 *)

\* C12: the history of a coupon lists one event per operation applied to
\* it, in the order they were applied: first its create with the coupon's
\* initial_amount, then deposits, withdrawals and payments only, and the
\* coupon's remaining_amount is what applying them in that order gives.
C12_HistoryInOrder ==
    (Handled({"history"}) /\ resp.status = 200) =>
        LET c == resp.coupon[1]
            es == resp.events
        IN  /\ es = getEventsForCoupon(Events, c.id, c.owner_wallet)
            /\ es # <<>>
            /\ es[1].type = "create" /\ es[1].amount_sol = c.initial_amount_sol
            /\ \A i \in 2 .. Len(es) : es[i].type \in Updates
            /\ c.remaining_amount_sol = SignedSum(es, CouponKey(c))

----------------------------------------------------------------------------
(* C13 *)

\* C13: no two coupons of the coupons file have the same id.
C13_UniqueIds ==
    \A i, j \in 1 .. Len(Coupons) : i # j => Coupons[i].id # Coupons[j].id

----------------------------------------------------------------------------
(* C14 *)

\* C14: the coupon in the response of every successful deposit, withdraw or
\* pay is the coupon the coupons file holds for the request's
\* (id, owner_wallet) when the operation is over, also when the write of
\* the coupons file did not take effect.
C14_ReturnedCouponIsPersisted ==
    [][(Idle /\ req'.op \in Updates /\ Succeeded(resp')) =>
          /\ Target(Coupons', req') # 0
          /\ resp'.coupon = <<Coupons'[Target(Coupons', req')]>>]_vars

----------------------------------------------------------------------------
(* C15 *)

\* C15: the response of every successful create, deposit, withdraw and pay
\* carries the coupon as the operation left it and the event the operation
\* appended.
C15_CouponAndEventReturned ==
    (Handled(Mutations) /\ Succeeded(resp)) =>
        /\ Len(resp.coupon) = 1
        /\ Len(resp.event) = 1
        /\ Events # <<>>
        /\ resp.event[1] = Events[Len(Events)]
        /\ EventKey(resp.event[1]) = CouponKey(resp.coupon[1])

----------------------------------------------------------------------------
(* C16 *)

\* The fields of a coupon other than remaining_amount.
Frozen(c) == [c EXCEPT !.remaining_amount_sol = 0]

\* C16: a deposit, withdraw or pay leaves the id, owner_wallet, label,
\* initial_amount, expires_at, pool_address and created_at of every coupon
\* as they were: remaining_amount is the only field it changes.
C16_OnlyRemainingChanges ==
    [][(Idle /\ req'.op \in Updates) =>
          /\ Len(Coupons') = Len(Coupons)
          /\ \A j \in 1 .. Len(Coupons) :
                Frozen(Coupons'[j]) = Frozen(Coupons[j])]_vars

\* A deposit, withdraw or pay just moved a coupon's balance away from its
\* initial amount.
C16_Witness ==
    /\ Handled(Updates) /\ Succeeded(resp)
    /\ Target(Coupons, req) # 0
    /\ LET c == Coupons[Target(Coupons, req)]
       IN  c.remaining_amount_sol # c.initial_amount_sol /\ resp.coupon = <<c>>

----------------------------------------------------------------------------
(* C17 *)

\* C17: every coupon of the coupons file is still in it after every
\* operation, the ones during which reading or parsing the coupons file
\* fails included.
C17_NeverDeleted ==
    [][\A i \in 1 .. Len(Coupons) :
          \E j \in 1 .. Len(Coupons') :
              Frozen(Coupons'[j]) = Frozen(Coupons[i])]_vars

----------------------------------------------------------------------------
(* C18 *)

\* C18: an on-chain withdrawal whose Settlement Gateway call times out or
\* has an unknown outcome leaves every remaining_amount as it was, appends
\* no event, ends in PendingReview and surfaces SettlementAmbiguous.
C18_AmbiguousSettlementChangesNothing ==
    [][(Idle /\ req'.op = "withdraw-onchain" /\ onchain'.gateway = "unknown") =>
          /\ Coupons' = Coupons /\ Events' = Events
          /\ onchain'.attempt = "PendingReview"
          /\ ~Succeeded(resp')
          /\ resp'.error = "SettlementAmbiguous"]_vars

\* The gateway did not answer a withdrawal the coupon's balance covers.
C18_Witness ==
    /\ Handled({"withdraw-onchain"})
    /\ onchain = Settlement("unknown", "PendingReview")
    /\ Target(Coupons, req) # 0
    /\ ReqAmount(req) <= Balance(Coupons, req)
    /\ Events # <<>>

----------------------------------------------------------------------------
(* C19 *)

\* C19: a deposit, withdraw or pay addressed to (id, owner_wallet) changes
\* at most the one coupon record updateCoupon picks for that pair; every
\* other coupon record and every event recorded before are as they were.
C19_OthersLeftAlone ==
    [][(Idle /\ req'.op \in Updates) =>
          /\ Len(Coupons') = Len(Coupons)
          /\ \A j \in 1 .. Len(Coupons) :
                j # Target(Coupons, req') => Coupons'[j] = Coupons[j]
          /\ IsPrefix(Events, Events')]_vars

\* A deposit, withdraw or pay succeeded on a store of two coupons.
C19_Witness ==
    /\ Handled(Updates) /\ Succeeded(resp)
    /\ Len(Coupons) >= 2
    /\ Len(Events) > Len(Coupons)

----------------------------------------------------------------------------
(* C20 *)

\* Every event names the (id, owner_wallet) of a stored coupon.
C20_EventsHaveCoupons ==
    \A i \in 1 .. Len(Events) :
        \E j \in 1 .. Len(Coupons) : CouponKey(Coupons[j]) = EventKey(Events[i])

\* A request that is turned down appends no event.
C20_RejectedAppendsNothing ==
    (Idle /\ ~Idle' /\ ~Succeeded(resp')) => Events' = Events

\* C20: in every reachable state each event's (coupon_id, owner_wallet) is
\* the (id, owner_wallet) of some coupon of the coupons file, and no
\* request that was rejected appends an event.
C20_EventsReferToCoupons ==
    []C20_EventsHaveCoupons /\ [][C20_RejectedAppendsNothing]_vars

\* A deposit, withdraw or pay was turned down (no such coupon for the
\* wallet, or not enough balance) on a store that holds events.
C20_Witness ==
    /\ Handled(Updates) /\ WellFormed(req)
    /\ resp.status \in {404, 500}
    /\ Events # <<>>

====
